---- MODULE Spec2Model ----
(***************************************************************************)
(* Model of the three DICOM code generators of go-radx:                    *)
(*   dicom/tag/generate_tag_values.py       (tag pipeline)                 *)
(*   dicom/uid/generate_uid_definitions.py  (UID-definitions pipeline)     *)
(*   dicom/uid/generate_uid_constants.py    (UID-constants pipeline)       *)
(* Strings are sequences of one-character strings, so that the text        *)
(* conversions of the scripts are computed character by character.         *)
(***************************************************************************)
EXTENDS Integers, Sequences, FiniteSets, TLC

(***************************************************************************)
(* Bounds of the model.                                                    *)
(***************************************************************************)
MaxEntries == 3
MaxAttrs == 2
MaxRows == 2
MaxFrames == 1

\* most entries written to the uidMap text of the round trip
MaxWritten == 2

(***************************************************************************)
(* Python str primitives.                                                  *)
(***************************************************************************)
LowerSeq ==
  <<"a","b","c","d","e","f","g","h","i","j","k","l","m",
    "n","o","p","q","r","s","t","u","v","w","x","y","z">>

UpperSeq ==
  <<"A","B","C","D","E","F","G","H","I","J","K","L","M",
    "N","O","P","Q","R","S","T","U","V","W","X","Y","Z">>

DigitSeq == <<"0","1","2","3","4","5","6","7","8","9">>

IsLowerCh(c) == \E i \in 1..26 : LowerSeq[i] = c

IsUpperCh(c) == \E i \in 1..26 : UpperSeq[i] = c

IsDigitCh(c) == \E i \in 1..10 : DigitSeq[i] = c

\* \s of the re module, restricted to the characters of the model
IsSpaceCh(c) == c \in {" ", "\t", "\n"}

\* \w of the re module, restricted to the characters of the model
IsWordCh(c) == IsLowerCh(c) \/ IsUpperCh(c) \/ IsDigitCh(c) \/ c = "_"

ToLowerCh(c) ==
  IF IsUpperCh(c) THEN LowerSeq[CHOOSE i \in 1..26 : UpperSeq[i] = c] ELSE c

ToUpperCh(c) ==
  IF IsLowerCh(c) THEN UpperSeq[CHOOSE i \in 1..26 : LowerSeq[i] = c] ELSE c

\* str.lower
StrLower(s) == [i \in 1..Len(s) |-> ToLowerCh(s[i])]

\* str.upper
StrUpper(s) == [i \in 1..Len(s) |-> ToUpperCh(s[i])]

\* str.capitalize: first character upper-cased, the rest lower-cased
Capitalize(s) ==
  [i \in 1..Len(s) |-> IF i = 1 THEN ToUpperCh(s[i]) ELSE ToLowerCh(s[i])]

\* str.isdigit: false for the empty string
IsDigitStr(s) == Len(s) > 0 /\ \A i \in 1..Len(s) : IsDigitCh(s[i])

\* str.strip
Strip(s) ==
  LET idx == {i \in 1..Len(s) : ~IsSpaceCh(s[i])}
  IN  IF idx = {} THEN <<>>
      ELSE LET lo == CHOOSE i \in idx : \A j \in idx : i <= j
               hi == CHOOSE i \in idx : \A j \in idx : j <= i
           IN  SubSeq(s, lo, hi)

RECURSIVE SplitFrom(_, _, _, _)
SplitFrom(s, i, cur, acc) ==
  IF i > Len(s)
    THEN (IF cur = <<>> THEN acc ELSE Append(acc, cur))
    ELSE IF IsSpaceCh(s[i])
      THEN SplitFrom(s, i + 1, <<>>, IF cur = <<>> THEN acc ELSE Append(acc, cur))
      ELSE SplitFrom(s, i + 1, Append(cur, s[i]), acc)

\* str.split() without argument: words between runs of whitespace
SplitWS(s) == SplitFrom(s, 1, <<>>, <<>>)

RECURSIVE Concat(_)
Concat(ws) == IF ws = <<>> THEN <<>> ELSE Head(ws) \o Concat(Tail(ws))

\* s.find(sub) >= 0, i.e. Python's  sub in s
Contains(s, sub) ==
  \E i \in 1..(Len(s) - Len(sub) + 1) : SubSeq(s, i, i + Len(sub) - 1) = sub

\* code point of a character (the characters of the model only)
Ord(c) ==
  IF IsDigitCh(c) THEN 47 + (CHOOSE i \in 1..10 : DigitSeq[i] = c)
  ELSE IF IsUpperCh(c) THEN 64 + (CHOOSE i \in 1..26 : UpperSeq[i] = c)
  ELSE IF IsLowerCh(c) THEN 96 + (CHOOSE i \in 1..26 : LowerSeq[i] = c)
  ELSE IF c = "." THEN 46
  ELSE IF c = "_" THEN 95
  ELSE IF c = "-" THEN 45
  ELSE 32

\* Python's  a < b  on str: first differing code point, else the shorter
StrLess(a, b) ==
  \/ \E i \in 1..Len(a) :
       /\ i <= Len(b)
       /\ \A j \in 1..(i - 1) : a[j] = b[j]
       /\ Ord(a[i]) < Ord(b[i])
  \/ /\ Len(a) < Len(b)
     /\ \A j \in 1..Len(a) : a[j] = b[j]

(***************************************************************************)
(* generate_uid_constants.py                                               *)
(***************************************************************************)
acronyms ==
  { <<"v","r">>, <<"u","i","d">>, <<"s","o","p">>, <<"c","t">>, <<"m","r">>,
    <<"u","s">>, <<"p","e","t">>, <<"n","m">>, <<"x","a">>, <<"r","f">>,
    <<"d","x">>, <<"m","g">>, <<"i","o">>, <<"p","x">>, <<"g","m">>,
    <<"s","m">>, <<"a","u">>, <<"h","d">>, <<"s","r">>, <<"k","o">>,
    <<"p","r">>, <<"r","t">>, <<"r","w","v">>, <<"s","e","g">>,
    <<"f","i","d">>, <<"r","e","g">>, <<"j","p","e","g">>, <<"r","l","e">>,
    <<"m","p","e","g">>, <<"s","m","p","t","e">>, <<"d","i","c","o","m">>,
    <<"h","l","7">>, <<"i","h","e">>, <<"i","s","o">>, <<"q","r">>,
    <<"m","p","p","s">>, <<"g","p">>, <<"p","p","s">>, <<"p","d","f">>,
    <<"c","d","a">>, <<"s","t","l">>, <<"m","t","l">>, <<"o","b","j">>,
    <<"i","v">>, <<"u","v">>, <<"r","o","i">>, <<"r","t","s","s">>,
    <<"d","v","h">>, <<"m","w","l">>, <<"u","p","s">>, <<"n","u","d">>,
    <<"f","d","a">>, <<"c","s","s">>, <<"h","t","m","l">>, <<"x","m","l">>,
    <<"j","s","o","n">>, <<"u","r","i">> }

RECURSIVE SubNonWordFrom(_, _, _)
SubNonWordFrom(s, i, acc) ==
  IF i > Len(s) THEN acc
  ELSE IF ~IsWordCh(s[i]) /\ ~IsSpaceCh(s[i])
    THEN IF i > 1 /\ ~IsWordCh(s[i - 1]) /\ ~IsSpaceCh(s[i - 1])
           THEN SubNonWordFrom(s, i + 1, acc)
           ELSE SubNonWordFrom(s, i + 1, Append(acc, " "))
    ELSE SubNonWordFrom(s, i + 1, Append(acc, s[i]))

\* re.sub(r'[^\w\s]+', ' ', name)
SubNonWord(s) == SubNonWordFrom(s, 1, <<>>)

\* the body of the  for word in words  loop of to_go_constant_name
GoWord(word) ==
  IF StrLower(word) \in acronyms THEN StrUpper(word)
  ELSE IF IsDigitStr(StrLower(word)) THEN word
  ELSE Capitalize(word)

to_go_constant_name(name) ==
  LET words == SplitWS(SubNonWord(name))
      result == [i \in 1..Len(words) |-> GoWord(words[i])]
      const_name == Concat(result)
  IN  IF const_name # <<>> /\ IsDigitCh(const_name[1])
        THEN <<"U","I","D">> \o const_name
        ELSE const_name


TypeTransferSyntax ==
  <<"T","y","p","e","T","r","a","n","s","f","e","r","S","y","n","t","a","x">>

TypeSOPClass == <<"T","y","p","e","S","O","P","C","l","a","s","s">>

TypeMetaSOPClass ==
  <<"T","y","p","e","M","e","t","a","S","O","P","C","l","a","s","s">>

TypeCodingScheme ==
  <<"T","y","p","e","C","o","d","i","n","g","S","c","h","e","m","e">>

\* first position of the sorted list whose uid is greater than uid
InsertPos(sorted, uid) ==
  LET later == {i \in 1..Len(sorted) : StrLess(uid, sorted[i][1])}
  IN  IF later = {} THEN Len(sorted) + 1
      ELSE CHOOSE i \in later : \A j \in later : i <= j

RECURSIVE sort_by_uid(_)
\* list.sort(key=lambda x: x[0]): stable, ascending under str comparison
sort_by_uid(xs) ==
  IF xs = <<>> THEN <<>>
  ELSE LET front == sort_by_uid(SubSeq(xs, 1, Len(xs) - 1))
           x == xs[Len(xs)]
           p == InsertPos(front, x[1])
       IN  SubSeq(front, 1, p - 1) \o <<x>> \o SubSeq(front, p, Len(front))

\* the list comprehension that keeps (uid, name, retired) of the wanted types
filter_types(uids, types) ==
  LET keep == SelectSeq(uids, LAMBDA u : u[3] \in types)
  IN  [i \in 1..Len(keep) |-> <<keep[i][1], keep[i][2], keep[i][4]>>]

\* uid_suffix without the split: the whole UID with underscores
uid_suffix_whole(uid) ==
  [i \in 1..Len(uid) |-> IF uid[i] = "." THEN "_" ELSE uid[i]]

\* suffix = uid.replace('.', '_');  suffix.split('_')[-1]
uid_suffix(uid) ==
  LET suffix == [i \in 1..Len(uid) |-> IF uid[i] = "." THEN "_" ELSE uid[i]]
      seps == {i \in 1..Len(suffix) : suffix[i] = "_"}
      last == IF seps = {} THEN 0
              ELSE CHOOSE i \in seps : \A j \in seps : j <= i
  IN  SubSeq(suffix, last + 1, Len(suffix))

\* dedup_name appending the suffix without the "_" separator
dedup_name_no_separator(const_name, uid, seen_names) ==
  IF const_name \in DOMAIN seen_names
    THEN const_name \o uid_suffix(uid)
    ELSE const_name

\* the "Handle duplicates" branch
dedup_name(const_name, uid, seen_names) ==
  IF const_name \in DOMAIN seen_names
    THEN const_name \o <<"_">> \o uid_suffix(uid)
    ELSE const_name

\* is_empty_name without the strip: only the empty string is skipped
is_empty_name_no_strip(name) == name = <<>>

\* not name or name.strip() == ''
is_empty_name(name) == name = <<>> \/ Strip(name) = <<>>

\* seen_names[const_name] = uid
dict_set(d, k, v) == [x \in DOMAIN d \cup {k} |-> IF x = k THEN v ELSE d[x]]

\* one iteration of the  for uid, name, retired in ...  loop
emit_entry(st, e) ==
  IF is_empty_name(e[2])
    THEN [st EXCEPT !.skipped = @ + 1]
    ELSE LET const_name == dedup_name(to_go_constant_name(e[2]), e[1],
                                      st.seen_names)
         IN  [seen_names |-> dict_set(st.seen_names, const_name, e[1]),
              skipped    |-> st.skipped,
              lines      |-> Append(st.lines,
                                    [const_name |-> const_name, uid |-> e[1],
                                     name |-> e[2], retired |-> e[3]])]

RECURSIVE emit_loop(_, _)
emit_loop(st, entries) ==
  IF entries = <<>> THEN st
  ELSE emit_loop(emit_entry(st, Head(entries)), Tail(entries))

\* the common body of generate_transfer_syntax_file / generate_sop_class_file
generate_file(uids, types) ==
  LET entries == sort_by_uid(filter_types(uids, types))
      st == emit_loop([seen_names |-> <<>>, skipped |-> 0, lines |-> <<>>],
                      entries)
  IN  [entries |-> entries,
       total   |-> Len(entries),
       lines   |-> st.lines,
       skipped |-> st.skipped,
       printed |-> [count |-> Len(entries) - st.skipped,
                    skip_note |-> IF st.skipped > 0
                                    THEN <<st.skipped>> ELSE <<>>]]

generate_transfer_syntax_file(uids) ==
  generate_file(uids, {TypeTransferSyntax})

generate_sop_class_file(uids) ==
  generate_file(uids, {TypeSOPClass, TypeMetaSOPClass})

(***************************************************************************)
(* generate_tag_values.py                                                  *)
(***************************************************************************)
allowed_vrs_separator == <<" ","o","r"," ">>

NA == <<"N","A">>

fffe == <<"f","f","f","e">>

ValueError == -1

\* value of a base-16 digit, -1 for any other character
HexVal(c) ==
  IF IsDigitCh(c) THEN (CHOOSE i \in 1..10 : DigitSeq[i] = c) - 1
  ELSE IF \E i \in 1..6 : LowerSeq[i] = c
    THEN 9 + (CHOOSE i \in 1..6 : LowerSeq[i] = c)
  ELSE IF \E i \in 1..6 : UpperSeq[i] = c
    THEN 9 + (CHOOSE i \in 1..6 : UpperSeq[i] = c)
  ELSE -1

IsHexStr(s) == Len(s) > 0 /\ \A i \in 1..Len(s) : HexVal(s[i]) >= 0

RECURSIVE HexNum(_)
HexNum(s) ==
  IF s = <<>> THEN 0
  ELSE 16 * HexNum(SubSeq(s, 1, Len(s) - 1)) + HexVal(s[Len(s)])

\* int(s, 16) on text of hex digits and placeholders: the digits, optionally
\* after a 0x / 0X prefix; anything else raises ValueError
py_int16(s) ==
  IF IsHexStr(s) THEN HexNum(s)
  ELSE IF /\ Len(s) >= 3
          /\ s[1] = "0"
          /\ s[2] \in {"x", "X"}
          /\ IsHexStr(SubSeq(s, 3, Len(s)))
    THEN HexNum(SubSeq(s, 3, Len(s)))
  ELSE ValueError

\* str.replace(old, new) for a one-character old
ReplaceCh(s, old, new) ==
  Concat([i \in 1..Len(s) |-> IF s[i] = old THEN new ELSE <<s[i]>>])

RECURSIVE SplitSepFrom(_, _, _, _, _)
SplitSepFrom(s, sep, i, cur, acc) ==
  IF i > Len(s) THEN Append(acc, cur)
  ELSE IF i + Len(sep) - 1 <= Len(s) /\ SubSeq(s, i, i + Len(sep) - 1) = sep
    THEN SplitSepFrom(s, sep, i + Len(sep), <<>>, Append(acc, cur))
    ELSE SplitSepFrom(s, sep, i + 1, Append(cur, s[i]), acc)

\* str.split(sep): always at least one piece
SplitSep(s, sep) == SplitSepFrom(s, sep, 1, <<>>, <<>>)

\* e["id"].replace("x", "0")
resolvable_tag_id(e) == ReplaceCh(e.id, "x", <<"0">>)

\* s[:4] and s[4:]
Slice4(s) == SubSeq(s, 1, IF Len(s) < 4 THEN Len(s) ELSE 4)

SliceFrom4(s) == SubSeq(s, 5, Len(s))

\* the  if  clause of the list comprehension
tag_included(e) == resolvable_tag_id(e) # <<>> /\ Len(e.keyword) > 0

\* tag_vr comparing the group text with 'fffe' without .lower()
tag_vr_case_sensitive(e) ==
  SplitSep(IF Slice4(resolvable_tag_id(e)) # fffe
             THEN e.valueRepresentation ELSE NA,
           allowed_vrs_separator)

\* the vr= argument of Tag(...)
tag_vr(e) ==
  SplitSep(IF StrLower(Slice4(resolvable_tag_id(e))) # fffe
             THEN e.valueRepresentation ELSE NA,
           allowed_vrs_separator)

\* Tag(...) for one element of attrs
make_tag(e) ==
  [group   |-> py_int16(Slice4(resolvable_tag_id(e))),
   elem    |-> py_int16(SliceFrom4(resolvable_tag_id(e))),
   vr      |-> tag_vr(e),
   name    |-> e.name,
   vm      |-> e.valueMultiplicity,
   keyword |-> e.keyword,
   retired |-> e.retired = "Y"]

\* int() raised while the Tag was built
tag_raises(e) ==
  \/ py_int16(Slice4(resolvable_tag_id(e))) = ValueError
  \/ py_int16(SliceFrom4(resolvable_tag_id(e))) = ValueError

vr_map ==
  { <<<<"A","E">>, "vr.ApplicationEntity">>, <<<<"A","S">>, "vr.AgeString">>,
    <<<<"A","T">>, "vr.AttributeTag">>, <<<<"C","S">>, "vr.CodeString">>,
    <<<<"D","A">>, "vr.Date">>, <<<<"D","S">>, "vr.DecimalString">>,
    <<<<"D","T">>, "vr.DateTime">>, <<<<"F","D">>, "vr.FloatingPointDouble">>,
    <<<<"F","L">>, "vr.FloatingPointSingle">>, <<<<"I","S">>, "vr.IntegerString">>,
    <<<<"L","O">>, "vr.LongString">>, <<<<"L","T">>, "vr.LongText">>,
    <<<<"O","B">>, "vr.OtherByte">>, <<<<"O","D">>, "vr.OtherDouble">>,
    <<<<"O","F">>, "vr.OtherFloat">>, <<<<"O","L">>, "vr.OtherLong">>,
    <<<<"O","V">>, "vr.OtherVeryLong">>, <<<<"O","W">>, "vr.OtherWord">>,
    <<<<"P","N">>, "vr.PersonName">>, <<<<"S","H">>, "vr.ShortString">>,
    <<<<"S","L">>, "vr.SignedLong">>, <<<<"S","Q">>, "vr.SequenceOfItems">>,
    <<<<"S","S">>, "vr.SignedShort">>, <<<<"S","T">>, "vr.ShortText">>,
    <<<<"S","V">>, "vr.SignedVeryLong">>, <<<<"T","M">>, "vr.Time">>,
    <<<<"U","C">>, "vr.UnlimitedCharacters">>, <<<<"U","I">>, "vr.UniqueIdentifier">>,
    <<<<"U","L">>, "vr.UnsignedLong">>, <<<<"U","N">>, "vr.Unknown">>,
    <<<<"U","R">>, "vr.UniversalResourceIdentifier">>, <<<<"U","S">>, "vr.UnsignedShort">>,
    <<<<"U","T">>, "vr.UnlimitedText">>, <<<<"U","V">>, "vr.UnsignedVeryLong">>,
    <<<<"N","A">>, "vr.Unknown">> }

vr_string_to_go_const(v) ==
  IF \E p \in vr_map : p[1] = v
    THEN (CHOOSE p \in vr_map : p[1] = v)[2]
    ELSE "vr.Unknown"

\* the fields interpolated into one TagDict line
tag_dict_entry(t) ==
  [key     |-> t.keyword,
   Tag     |-> t.keyword,
   VRs     |-> [i \in 1..Len(t.vr) |-> vr_string_to_go_const(t.vr[i])],
   Name    |-> t.name,
   Keyword |-> t.keyword,
   VM      |-> t.vm,
   Retired |-> t.retired]

\* the fields interpolated into one  var <keyword> = New(...)  line
tag_var_line(t) == [name |-> t.keyword, group |-> t.group, elem |-> t.elem]

\* the text printed by generate
tag_values_text(ts) ==
  [vars    |-> [i \in 1..Len(ts) |-> tag_var_line(ts[i])],
   TagDict |-> [i \in 1..Len(ts) |-> tag_dict_entry(ts[i])]]

(***************************************************************************)
(* generate_uid_definitions.py                                             *)
(***************************************************************************)
RetiredMarker == <<"(","R","e","t","i","r","e","d",")">>

Retired == <<"R","e","t","i","r","e","d">>

\* U+00AD, the soft hyphen, as one character of the model
SHY == "SHY"

sanitize_acronyms ==
  { <<<<"s","o","p">>, <<"S","O","P">>>>,
    <<<<"d","i","c","o","m">>, <<"D","I","C","O","M">>>>,
    <<<<"l","d","a","p">>, <<"L","D","A","P">>>>,
    <<<<"o","i","d">>, <<"O","I","D">>>>,
    <<<<"u","i","d">>, <<"U","I","D">>>>,
    <<<<"u","i","d","s">>, <<"U","I","D","s">>>> }

\* the character class [\s\-/\.] of the split pattern
IsTypeSepCh(c) == IsSpaceCh(c) \/ c \in {"-", "/", "."}

RECURSIVE SplitTypeFrom(_, _, _, _)
SplitTypeFrom(s, i, cur, acc) ==
  IF i > Len(s) THEN Append(acc, cur)
  ELSE IF IsTypeSepCh(s[i])
    THEN IF i > 1 /\ IsTypeSepCh(s[i - 1])
           THEN SplitTypeFrom(s, i + 1, cur, acc)
           ELSE SplitTypeFrom(s, i + 1, <<>>, Append(acc, cur))
    ELSE SplitTypeFrom(s, i + 1, Append(cur, s[i]), acc)

\* re.split(r'[\s\-/\.]+', keyword): empty words at the ends are kept
SplitType(s) == SplitTypeFrom(s, 1, <<>>, <<>>)

\* the body of the  for word in words  loop of sanitize_keyword
SanitizeWord(word) ==
  IF word = <<>> THEN <<>>
  ELSE IF \E p \in sanitize_acronyms : p[1] = StrLower(word)
    THEN (CHOOSE p \in sanitize_acronyms : p[1] = StrLower(word))[2]
  ELSE Capitalize(word)

sanitize_keyword(keyword) ==
  LET words == SplitType(keyword)
  IN  Concat([i \in 1..Len(words) |-> SanitizeWord(words[i])])

RECURSIVE ReplaceFrom(_, _, _, _, _)
ReplaceFrom(s, old, new, i, acc) ==
  IF i > Len(s) THEN acc
  ELSE IF i + Len(old) - 1 <= Len(s) /\ SubSeq(s, i, i + Len(old) - 1) = old
    THEN ReplaceFrom(s, old, new, i + Len(old), acc \o new)
    ELSE ReplaceFrom(s, old, new, i + 1, Append(acc, s[i]))

\* str.replace(old, new): left to right, non-overlapping
Replace(s, old, new) == ReplaceFrom(s, old, new, 1, <<>>)

\* name.split(":", 1) for a name that contains a colon
SplitColon(name) ==
  LET p == CHOOSE i \in 1..Len(name) :
             name[i] = ":" /\ \A j \in 1..(i - 1) : name[j] # ":"
  IN  <<SubSeq(name, 1, p - 1), SubSeq(name, p + 1, Len(name))>>

\* U+200B, the zero-width space, as one character of the model
ZWSP == "ZWSP"

\* the labels passed by parse_uid_values_table
uid_values_labels ==
  <<"UID Value", "UID Name", "UID Keyword", "UID Type", "UID Info", "Retired">>

\* the labels passed by parse_frames_of_reference_table
frames_labels ==
  <<"UID Value", "UID Name", "UID Keyword", "Normative Reference">>

\* An optional text (None or a str) is <<>> or <<text>>.  A para element is
\* [text, emphasis]: its own optional text, and <<>> when it has no emphasis
\* child, else <<the optional text of the first one>>.  A tr element is the
\* sequence of its para elements in document order.

\* text.strip().replace("\u200b", "")
clean_text(text) == Replace(Strip(text), <<ZWSP>>, <<>>)

\* the body of the  for cell in row.iter(para)  loop of parse_row
cell_value(cell) ==
  IF cell.emphasis # <<>>
    THEN IF cell.emphasis[1] # <<>> THEN clean_text(cell.emphasis[1][1])
         ELSE <<>>
    ELSE IF cell.text # <<>> THEN clean_text(cell.text[1])
         ELSE <<>>

\* pad_cells without the while loop
pad_cells_none(cell_values, column_names) == cell_values

\* the "Pad with empty string if needed" loop
pad_cells(cell_values, column_names) ==
  IF Len(cell_values) < Len(column_names)
    THEN cell_values
           \o [i \in 1..(Len(column_names) - Len(cell_values)) |-> <<>>]
    ELSE cell_values

\* {k: v for k, v in zip(column_names, cell_values)}: zip stops at the
\* shorter list, a repeated key keeps its last value
zip_dict(column_names, cell_values) ==
  LET n == IF Len(column_names) < Len(cell_values)
             THEN Len(column_names) ELSE Len(cell_values)
  IN  [k \in {column_names[i] : i \in 1..n} |->
         cell_values[CHOOSE i \in 1..n :
                       /\ column_names[i] = k
                       /\ \A j \in 1..n : column_names[j] = k => j <= i]]

\* the keys of that dict in insertion order
dict_keys(column_names, cell_values) ==
  LET n == IF Len(column_names) < Len(cell_values)
             THEN Len(column_names) ELSE Len(cell_values)
      keys[i \in 0..n] ==
        IF i = 0 THEN <<>>
        ELSE IF \E j \in 1..(i - 1) : column_names[j] = column_names[i]
               THEN keys[i - 1]
               ELSE Append(keys[i - 1], column_names[i])
  IN  keys[n]

\* the keys of the dict parse_row returns, in order
parse_row_keys(column_names, row) ==
  dict_keys(column_names,
            pad_cells([i \in 1..Len(row) |-> cell_value(row[i])], column_names))

parse_row(column_names, row) ==
  zip_dict(column_names,
           pad_cells([i \in 1..Len(row) |-> cell_value(row[i])], column_names))

\* the "(Retired)" step of the post-processing loop
strip_retired(attr, name) ==
  IF Contains(name, RetiredMarker)
    THEN [attr EXCEPT !["Retired"] = Retired,
                      !["UID Name"] = Strip(Replace(name, RetiredMarker, <<>>))]
    ELSE attr

\* the colon step of the post-processing loop
split_info(attr, name) ==
  IF Contains(name, <<":">>)
    THEN [attr EXCEPT !["UID Name"] = Strip(SplitColon(name)[1]),
                      !["UID Info"] = Strip(SplitColon(name)[2])]
    ELSE attr

\* one iteration of the post-processing loop of parse_uid_values_table
post_process(attr) ==
  split_info(strip_retired(attr, attr["UID Name"]), attr["UID Name"])

parse_uid_values_table(rows) ==
  [i \in 1..Len(rows) |-> post_process(parse_row(uid_values_labels, rows[i]))]

WellKnownFrameOfReference ==
  <<"W","e","l","l","-","k","n","o","w","n"," ","f","r","a","m","e"," ",
    "o","f"," ","r","e","f","e","r","e","n","c","e">>

\* one iteration of the post-processing loop of parse_frames_of_reference_table
frame_attr(attr) ==
  [k \in {"UID Value", "UID Name", "UID Keyword", "UID Type", "UID Info",
          "Retired"} |->
     IF k = "UID Type" THEN WellKnownFrameOfReference
     ELSE IF k \in {"UID Info", "Retired"} THEN <<>>
     ELSE attr[k]]

parse_frames_of_reference_table(rows) ==
  [i \in 1..Len(rows) |-> frame_attr(parse_row(frames_labels, rows[i]))]

\* the "Clean up data" loop of main
clean_up(attr) ==
  [attr EXCEPT !["UID Name"] = Replace(@, <<"&">>, <<"a","n","d">>),
               !["UID Value"] = Replace(@, <<SHY>>, <<>>)]

\* the constant names declared by generate_type_enum
TypeEnumNames ==
  { <<"T", "y", "p", "e", "S", "O", "P", "C", "l", "a", "s", "s">>,
    <<"T", "y", "p", "e", "M", "e", "t", "a", "S", "O", "P", "C", "l",
      "a", "s", "s">>,
    <<"T", "y", "p", "e", "T", "r", "a", "n", "s", "f", "e", "r", "S",
      "y", "n", "t", "a", "x">>,
    <<"T", "y", "p", "e", "W", "e", "l", "l", "K", "n", "o", "w", "n",
      "S", "O", "P", "I", "n", "s", "t", "a", "n", "c", "e">>,
    <<"T", "y", "p", "e", "W", "e", "l", "l", "K", "n", "o", "w", "n",
      "F", "r", "a", "m", "e", "O", "f", "R", "e", "f", "e", "r", "e", "n",
      "c", "e">>,
    <<"T", "y", "p", "e", "C", "o", "d", "i", "n", "g", "S", "c", "h",
      "e", "m", "e">>,
    <<"T", "y", "p", "e", "A", "p", "p", "l", "i", "c", "a", "t", "i",
      "o", "n", "C", "o", "n", "t", "e", "x", "t", "N", "a", "m", "e">>,
    <<"T", "y", "p", "e", "S", "e", "r", "v", "i", "c", "e", "C", "l",
      "a", "s", "s">>,
    <<"T", "y", "p", "e", "D", "I", "C", "O", "M", "U", "I", "D", "s",
      "A", "s", "A", "C", "o", "d", "i", "n", "g", "S", "c", "h", "e", "m",
      "e">>,
    <<"T", "y", "p", "e", "L", "D", "A", "P", "O", "I", "D">>,
    <<"T", "y", "p", "e", "S", "y", "n", "c", "h", "r", "o", "n", "i",
      "z", "a", "t", "i", "o", "n", "F", "r", "a", "m", "e", "O", "f", "R",
      "e", "f", "e", "r", "e", "n", "c", "e">>,
    <<"T", "y", "p", "e", "A", "p", "p", "l", "i", "c", "a", "t", "i",
      "o", "n", "H", "o", "s", "t", "i", "n", "g", "M", "o", "d", "e", "l">>,
    <<"T", "y", "p", "e", "M", "a", "p", "p", "i", "n", "g", "R", "e",
      "s", "o", "u", "r", "c", "e">> }

\* the string values of the constants declared by generate_type_enum
TypeEnumValues ==
  { <<"S", "O", "P", " ", "C", "l", "a", "s", "s">>,
    <<"M", "e", "t", "a", " ", "S", "O", "P", " ", "C", "l", "a", "s",
      "s">>,
    <<"T", "r", "a", "n", "s", "f", "e", "r", " ", "S", "y", "n", "t",
      "a", "x">>,
    <<"W", "e", "l", "l", "-", "k", "n", "o", "w", "n", " ", "S", "O",
      "P", " ", "I", "n", "s", "t", "a", "n", "c", "e">>,
    <<"W", "e", "l", "l", "-", "k", "n", "o", "w", "n", " ", "f", "r",
      "a", "m", "e", " ", "o", "f", " ", "r", "e", "f", "e", "r", "e", "n",
      "c", "e">>,
    <<"C", "o", "d", "i", "n", "g", " ", "S", "c", "h", "e", "m", "e">>,
    <<"A", "p", "p", "l", "i", "c", "a", "t", "i", "o", "n", " ", "C",
      "o", "n", "t", "e", "x", "t", " ", "N", "a", "m", "e">>,
    <<"S", "e", "r", "v", "i", "c", "e", " ", "C", "l", "a", "s", "s">>,
    <<"D", "I", "C", "O", "M", " ", "U", "I", "D", "s", " ", "a", "s",
      " ", "a", " ", "C", "o", "d", "i", "n", "g", " ", "S", "c", "h", "e",
      "m", "e">>,
    <<"L", "D", "A", "P", " ", "O", "I", "D">>,
    <<"S", "y", "n", "c", "h", "r", "o", "n", "i", "z", "a", "t", "i",
      "o", "n", " ", "F", "r", "a", "m", "e", " ", "o", "f", " ", "R", "e",
      "f", "e", "r", "e", "n", "c", "e">>,
    <<"A", "p", "p", "l", "i", "c", "a", "t", "i", "o", "n", " ", "H",
      "o", "s", "t", "i", "n", "g", " ", "M", "o", "d", "e", "l">>,
    <<"M", "a", "p", "p", "i", "n", "g", " ", "R", "e", "s", "o", "u",
      "r", "c", "e">> }

Quote == "\""

Escaped == <<"\\", "\"">>

\* the fields interpolated into one uidMap line
uid_map_entry(attr) ==
  [key     |-> attr["UID Value"],
   UID     |-> attr["UID Value"],
   Name    |-> Replace(attr["UID Name"], <<Quote>>, Escaped),
   Type    |-> <<"T","y","p","e">> \o sanitize_keyword(attr["UID Type"]),
   Info    |-> Replace(attr["UID Info"], <<Quote>>, Escaped),
   Retired |-> IF attr["Retired"] = Retired THEN "true" ELSE "false"]

generate_uid_map(attrs) == [i \in 1..Len(attrs) |-> uid_map_entry(attrs[i])]

\* the parts of the file written by write_output_file that depend on data
\* or are referred to by it
uid_definitions_text(attrs) ==
  [type_enum |-> TypeEnumNames, uidMap |-> generate_uid_map(attrs)]

\* the first two lines of generate_uid_map
uid_map_comment ==
  <<"/", "/", " ", "u", "i", "d", "M", "a", "p", " ", "c", "o", "n", "t",
    "a", "i", "n", "s", " ", "m", "e", "t", "a", "d", "a", "t", "a", " ",
    "f", "o", "r", " ", "a", "l", "l", " ", "s", "t", "a", "n", "d", "a",
    "r", "d", " ", "D", "I", "C", "O", "M", " ", "U", "I", "D", "s", ".">>

uid_map_decl ==
  <<"v", "a", "r", " ", "u", "i", "d", "M", "a", "p", " ", "=", " ", "m",
    "a", "p", "[", "s", "t", "r", "i", "n", "g", "]", "I", "n", "f", "o",
    "{">>

\* '\n'.join(lines)
JoinLines(lines) ==
  Concat([i \in 1..Len(lines) |->
            IF i = 1 THEN lines[i] ELSE <<"\n">> \o lines[i]])

\* the "Single line format" f-string
uid_map_line(e) ==
  <<"\t", Quote>> \o e.key \o <<"\"", ":", " ", "{", "U", "I", "D", ":", " ", "\"">>
    \o e.UID \o <<"\"", ",", " ", "N", "a", "m", "e", ":", " ", "\"">>
    \o e.Name \o <<"\"", ",", " ", "T", "y", "p", "e", ":", " ">>
    \o e.Type \o <<",", " ", "I", "n", "f", "o", ":", " ", "\"">>
    \o e.Info \o <<"\"", ",", " ", "R", "e", "t", "i", "r", "e", "d", ":", " ">>
    \o (IF e.Retired = "true" THEN <<"t","r","u","e">>
        ELSE <<"f","a","l","s","e">>)
    \o <<"}", ",">>

\* the text generate_uid_map returns
uid_map_text(attrs) ==
  LET entries == generate_uid_map(attrs)
  IN  JoinLines(<<uid_map_comment, uid_map_decl>>
                  \o [i \in 1..Len(entries) |-> uid_map_line(entries[i])]
                  \o << <<"}">> >>)

(***************************************************************************)
(* generate_uid_constants.py: parse_uid_map                                *)
(***************************************************************************)
\* str.find, counted from 1; 0 when sub does not occur
Find(text, sub) ==
  IF Contains(text, sub)
    THEN CHOOSE i \in 1..(Len(text) - Len(sub) + 1) :
           /\ SubSeq(text, i, i + Len(sub) - 1) = sub
           /\ \A j \in 1..(i - 1) : SubSeq(text, j, j + Len(sub) - 1) # sub
    ELSE 0

\* brace_count after the character at position i, counted from start
brace_count(text, start, i) ==
  Cardinality({j \in start..i : text[j] = "{"})
    - Cardinality({j \in start..i : text[j] = "}"})

\* the "counting braces" loop from start_pos: the position of the first
\* closing brace that brings brace_count to 0, or 0 when the loop ends
\* without break
closing_brace(text, start_pos) ==
  LET closes(i) == text[i] = "}" /\ brace_count(text, start_pos, i) = 0
  IN  IF \E i \in start_pos..Len(text) : closes(i)
        THEN CHOOSE i \in start_pos..Len(text) :
               closes(i) /\ \A j \in start_pos..(i - 1) : ~closes(j)
        ELSE 0

\* the character classes of the entry pattern
InClass(cls, c) ==
  IF cls = "space" THEN IsSpaceCh(c)
  ELSE IF cls = "word" THEN IsWordCh(c)
  ELSE IF cls = "notquote" THEN c # Quote
  ELSE FALSE

\* a piece of the entry pattern: the literal lit followed by a greedy run of
\* at least min characters of class cls, captured as group number group
\* (0: not captured); or, when alts is not empty, one of the literals alts
Piece(lit, cls, min, group) ==
  [lit |-> lit, cls |-> cls, min |-> min, group |-> group, alts |-> <<>>]

Lit(lit) == Piece(lit, "none", 0, 0)

Spaces == Piece(<<>>, "space", 0, 0)

\* the regular expression of parse_uid_map, piece by piece; every repetition
\* is followed by a character outside its class, so the greedy match of a
\* piece is its only match
pattern ==
  << Lit(<<Quote>>), Piece(<<>>, "notquote", 1, 1), Lit(<<Quote, ":">>),
     Spaces, Lit(<<"{">>), Spaces, Lit(<<"U","I","D",":">>), Spaces,
     Lit(<<Quote>>), Piece(<<>>, "notquote", 0, 0), Lit(<<Quote, ",">>),
     Spaces, Lit(<<"N","a","m","e",":">>), Spaces,
     Lit(<<Quote>>), Piece(<<>>, "notquote", 0, 2), Lit(<<Quote, ",">>),
     Spaces, Lit(<<"T","y","p","e",":">>), Spaces,
     Piece(<<"T","y","p","e">>, "word", 1, 3), Lit(<<",">>),
     Spaces, Lit(<<"I","n","f","o",":">>), Spaces,
     Lit(<<Quote>>), Piece(<<>>, "notquote", 0, 0), Lit(<<Quote, ",">>),
     Spaces, Lit(<<"R","e","t","i","r","e","d",":">>), Spaces,
     [lit |-> <<>>, cls |-> "none", min |-> 0, group |-> 4,
      alts |-> << <<"t","r","u","e">>, <<"f","a","l","s","e">> >>],
     Spaces, Lit(<<"}">>) >>

StartsWith(text, pos, lit) ==
  /\ pos + Len(lit) - 1 <= Len(text)
  /\ SubSeq(text, pos, pos + Len(lit) - 1) = lit

\* the position after the run of characters of class cls from position i
RunEnd(text, i, cls) ==
  CHOOSE to \in i..(Len(text) + 1) :
    /\ to = Len(text) + 1 \/ ~InClass(cls, text[to])
    /\ \A j \in i..(to - 1) : InClass(cls, text[j])

\* the position after the match of one piece at pos, 0 when it does not match
PieceEnd(text, pos, piece) ==
  IF piece.alts # <<>>
    THEN IF \E a \in 1..Len(piece.alts) : StartsWith(text, pos, piece.alts[a])
           THEN pos + Len(piece.alts[CHOOSE a \in 1..Len(piece.alts) :
                            /\ StartsWith(text, pos, piece.alts[a])
                            /\ \A b \in 1..(a - 1) :
                                 ~StartsWith(text, pos, piece.alts[b])])
           ELSE 0
    ELSE IF StartsWith(text, pos, piece.lit)
           THEN LET from == pos + Len(piece.lit)
                    to   == RunEnd(text, from, piece.cls)
                IN  IF to - from >= piece.min THEN to ELSE 0
           ELSE 0

\* the match of the pieces k.. of the pattern at position pos
RECURSIVE MatchFrom(_, _, _, _)
MatchFrom(text, pos, k, groups) ==
  IF k > Len(pattern) THEN [ok |-> TRUE, end |-> pos, groups |-> groups]
  ELSE LET to == PieceEnd(text, pos, pattern[k])
       IN  IF to = 0 THEN [ok |-> FALSE, end |-> pos, groups |-> groups]
           ELSE MatchFrom(text, to, k + 1,
                          IF pattern[k].group > 0
                            THEN [groups EXCEPT ![pattern[k].group] =
                                    SubSeq(text, pos, to - 1)]
                            ELSE groups)

NoGroups == << <<>>, <<>>, <<>>, <<>> >>

\* the loop over re.finditer: the leftmost match from pos on, then the
\* search goes on where that match ended
RECURSIVE finditer(_, _, _)
finditer(text, pos, uids) ==
  LET starts == {p \in pos..Len(text) : MatchFrom(text, p, 1, NoGroups).ok}
  IN  IF starts = {} THEN uids
      ELSE LET first == CHOOSE p \in starts : \A q \in starts : p <= q
               match == MatchFrom(text, first, 1, NoGroups)
           IN  finditer(text, match.end,
                        Append(uids,
                               <<match.groups[1], match.groups[2],
                                 Strip(match.groups[3]),
                                 match.groups[4] = <<"t","r","u","e">> >>))

\* parse_uid_map on the text of uid_values.go: ValueError, or the tuples
\* (uid, name, type, retired) in the order of their matches
parse_uid_map(text) ==
  LET uid_map_start == Find(text, uid_map_decl)
      end == IF uid_map_start = 0 THEN 0
             ELSE closing_brace(text, uid_map_start + Len(uid_map_decl) - 1)
  IN  IF end = 0 THEN [raises |-> TRUE, uids |-> <<>>]
      ELSE [raises |-> FALSE,
            uids |-> finditer(SubSeq(text, uid_map_start, end), 1, <<>>)]

(***************************************************************************)
(* Inputs of the model.                                                    *)
(***************************************************************************)
SeqsUpTo(S, n) == UNION {[1..k -> S] : k \in 0..n}

\* ids of attributes.json: plain, item range in three letter cases, and
\* repeating groups with the placeholder in either case
IdPool ==
  { <<"0","0","2","8","0","0","3","0">>,
    <<"f","f","f","e","e","0","0","0">>,
    <<"F","F","F","E","E","0","0","D">>,
    <<"6","0","x","x","3","0","0","0">>,
    <<"6","0","X","X","3","0","0","0">>,
    <<"0","X","2","8","0","0","3","0">> }

VRPool == { <<"D","S">>, <<"U","S"," ","o","r"," ","S","S">> }

Item == <<"I","t","e","m">>

Attr(id, vr, keyword, retired) ==
  [id |-> id, valueRepresentation |-> vr, name |-> <<"n">>,
   valueMultiplicity |-> <<"1">>, keyword |-> keyword, retired |-> retired]

AttrPool ==
  {Attr(id, vr, Item, "N") : id \in IdPool, vr \in VRPool}
    \cup {Attr(id, <<"D","S">>, kw, "N") :
            id \in {<<"0","0","2","8","0","0","3","0">>, <<"f","f","f","e","e","0","0","0">>},
            kw \in {<<>>, <<" ">>}}
    \cup {Attr(<<"0","0","2","8","0","0","3","0">>, <<"D","S">>, <<"P","x">>, "Y")}

U19 == <<"1",".","9">>

U110 == <<"1",".","1","0">>

U29 == <<"2",".","9">>

U123 == <<"1",".","2",".","3">>

U1231 == <<"1",".","2",".","3",".","1">>

SOPClassText == <<"S","O","P"," ","C","l","a","s","s">>

TransferSyntaxText ==
  <<"T","r","a","n","s","f","e","r"," ","S","y","n","t","a","x">>

\* raw display names of Table A-1: with and without the retirement marker,
\* before and after a colon
RawNamePool ==
  { <<"a">>,
    <<"a"," ">> \o RetiredMarker,
    RetiredMarker \o <<" ","a">>,
    <<"a"," ">> \o RetiredMarker \o <<":"," ","b">>,
    <<"a",":"," ","b"," ">> \o RetiredMarker,
    <<"a",":"," ","b">> }

Row(uid, name, type, retired) ==
  [k \in {"UID Value", "UID Name", "UID Keyword", "UID Type", "UID Info",
          "Retired"} |->
     IF k = "UID Value" THEN uid
     ELSE IF k = "UID Name" THEN name
     ELSE IF k = "UID Keyword" THEN <<"K">>
     ELSE IF k = "UID Type" THEN type
     ELSE IF k = "UID Info" THEN <<>>
     ELSE retired]

RowPool ==
  {Row(U19, n, SOPClassText, r) : n \in RawNamePool, r \in {<<>>, Retired}}
    \cup {Row(U19, <<"a">>, ty, <<>>) :
            ty \in {TransferSyntaxText, <<"B","o","g","u","s">>, <<>>}}
    \cup {Row(<<"1",".",SHY,"1","0">>, <<"a"," ","&"," ","b">>,
              SOPClassText, <<>>)}

FrameRow(uid, name) ==
  [k \in {"UID Value", "UID Name", "UID Keyword", "Normative Reference"} |->
     IF k = "UID Value" THEN uid
     ELSE IF k = "UID Name" THEN name
     ELSE IF k = "UID Keyword" THEN <<"K">>
     ELSE <<"r","e","f">>]

FramePool ==
  { FrameRow(U123, <<"f">>),
    FrameRow(<<"1",".",SHY,"9">>, <<"f"," ","&"," ","g">>) }

\* a para element with the given text and no emphasis child
Para(text) == [text |-> <<text>>, emphasis |-> <<>>]

\* a para element whose text is in an emphasis child
EmphPara(text) == [text |-> <<>>, emphasis |-> <<<<text>>>>]

\* a tr element with one plain para per label
TR(labels, r) == [i \in 1..Len(labels) |-> Para(r[labels[i]])]

\* the tr elements of Table A-1: one para per column, and rows with fewer
\* or more paras, emphasis, empty elements and zero-width spaces
TRPool ==
  {TR(uid_values_labels, r) : r \in RowPool}
    \cup { <<EmphPara(U19), Para(<<" ","a",ZWSP," ">>)>>,
           <<Para(U19), [text |-> <<"x">>, emphasis |-> <<<<>>>>],
             [text |-> <<>>, emphasis |-> <<>>], Para(SOPClassText),
             Para(<<ZWSP>>), Para(Retired), Para(<<"e","x","t","r","a">>)>> }

\* the tr elements of Table A-2: one para per column, and one more para in
\* the row of 1.2.3
FrameTRPool ==
  { IF r["UID Value"] = U123
      THEN Append(TR(frames_labels, r), EmphPara(<<"e","x","t","r","a">>))
      ELSE TR(frames_labels, r) : r \in FramePool }

\* tuples (uid, name, type, retired) matched in uid_values.go
EntryPool ==
  { <<U19, <<"a">>, TypeTransferSyntax, FALSE>>,
    <<U110, <<"a">>, TypeTransferSyntax, FALSE>>,
    <<U29, <<"a">>, TypeTransferSyntax, TRUE>>,
    <<U123, <<"a">>, TypeTransferSyntax, FALSE>>,
    <<U1231, <<"a">>, TypeTransferSyntax, TRUE>>,
    <<U19, <<"a",".">>, TypeTransferSyntax, FALSE>>,
    <<U110, <<"a","_","9">>, TypeTransferSyntax, FALSE>>,
    <<U123, <<>>, TypeTransferSyntax, FALSE>>,
    <<U29, <<"-">>, TypeTransferSyntax, FALSE>>,
    <<U19, <<"a">>, TypeSOPClass, FALSE>>,
    <<U29, <<"a",".">>, TypeSOPClass, FALSE>>,
    <<U110, <<"a">>, TypeMetaSOPClass, TRUE>>,
    <<U19, <<" ">>, TypeSOPClass, FALSE>>,
    <<U110, <<"9"," ","c","t">>, TypeSOPClass, FALSE>>,
    <<U123, <<"a">>, TypeCodingScheme, FALSE>> }

(***************************************************************************)
(* State of one generator run.                                             *)
(***************************************************************************)
VARIABLES
  pipeline,       \* which script runs: "tag", "def" or "const"
  pc,             \* position of main
  err,            \* the error that ended the run, "" while there is none
  files,          \* the output files of the package directory
  stdout,         \* the summaries printed by the UID-constants generators
  attrs,          \* tag: the decoded attributes.json
  idx,            \* tag: position of the list comprehension in attrs
  tags,           \* tag: the Tags built so far
  root,           \* def: the tables of part06.xml
  uid_values,     \* def: result of parse_uid_values_table
  frames_of_ref,  \* def: result of parse_frames_of_reference_table
  all_uids,       \* def: uid_values + frames_of_ref after the clean-up
  uids,           \* const: result of parse_uid_map
  content         \* the uidMap text handed from generate_uid_map to
                  \* parse_uid_map in the round trip of the two pipelines

vars ==
  <<pipeline, pc, err, files, stdout, attrs, idx, tags, root, uid_values,
    frames_of_ref, all_uids, uids, content>>

tagVars == <<attrs, idx, tags>>

defVars == <<root, uid_values, frames_of_ref, all_uids>>

OutputFiles ==
  {"tag_values.go", "uid_definitions.go", "transfer_syntax_uids.go",
   "sop_class_uids.go"}

\* an artifact left by an earlier run
Previous == [state |-> "previous", body |-> <<>>]

\* open(path, "w"): the file exists and is empty
Truncated == [state |-> "truncated", body |-> <<>>]

Written(body) == [state |-> "written", body |-> body]

NoTable == [found |-> FALSE, rows |-> <<>>]

Init ==
  /\ pipeline \in {"tag", "def", "const"}
  /\ pc = "start"
  /\ err = ""
  /\ files = [f \in OutputFiles |-> Previous]
  /\ stdout = <<>>
  /\ attrs = <<>>
  /\ idx = 1
  /\ tags = <<>>
  /\ root = [uid_table |-> NoTable, frames_table |-> NoTable]
  /\ uid_values = <<>>
  /\ frames_of_ref = <<>>
  /\ all_uids = <<>>
  /\ uids = <<>>
  /\ content = <<>>

\* an uncaught exception or sys.exit(1)
Abort(e) == pc' = "aborted" /\ err' = e

(***************************************************************************)
(* generate_tag_values.py: main, generate, read_tags_from_innolitics       *)
(***************************************************************************)
\* with open("tag_values.go", "w") as out
TagOpen ==
  /\ pipeline = "tag" /\ pc = "start"
  /\ files' = [files EXCEPT !["tag_values.go"] = Truncated]
  /\ pc' = "fetch"
  /\ UNCHANGED <<pipeline, err, stdout, tagVars, defVars, uids, content>>

\* urllib.request.urlopen(...) and response.read() succeed
TagFetch ==
  /\ pipeline = "tag" /\ pc = "fetch"
  /\ pc' = "decode"
  /\ UNCHANGED <<pipeline, err, files, stdout, tagVars, defVars, uids, content>>

\* urlopen raises
TagFetchFails ==
  /\ pipeline = "tag" /\ pc = "fetch"
  /\ Abort("RetrievalError")
  /\ UNCHANGED <<pipeline, files, stdout, tagVars, defVars, uids, content>>

\* json.loads(response.read().decode())
TagDecode ==
  /\ pipeline = "tag" /\ pc = "decode"
  /\ \E as \in SeqsUpTo(AttrPool, MaxAttrs) : attrs' = as
  /\ idx' = 1
  /\ tags' = <<>>
  /\ pc' = "read"
  /\ UNCHANGED <<pipeline, err, files, stdout, defVars, uids, content>>

\* json.loads raises
TagDecodeFails ==
  /\ pipeline = "tag" /\ pc = "decode"
  /\ Abort("FormatError")
  /\ UNCHANGED <<pipeline, files, stdout, tagVars, defVars, uids, content>>

\* one element of attrs in the list comprehension
TagRecord ==
  /\ pipeline = "tag" /\ pc = "read" /\ idx <= Len(attrs)
  /\ ~(tag_included(attrs[idx]) /\ tag_raises(attrs[idx]))
  /\ tags' = IF tag_included(attrs[idx])
               THEN Append(tags, make_tag(attrs[idx]))
               ELSE tags
  /\ idx' = idx + 1
  /\ UNCHANGED <<pipeline, pc, err, files, stdout, attrs, defVars, uids, content>>

\* int(..., 16) raises ValueError inside the list comprehension
TagRecordRaises ==
  /\ pipeline = "tag" /\ pc = "read" /\ idx <= Len(attrs)
  /\ tag_included(attrs[idx]) /\ tag_raises(attrs[idx])
  /\ Abort("ValueError")
  /\ UNCHANGED <<pipeline, files, stdout, tagVars, defVars, uids, content>>

\* print(..., file=out) and the end of the with block
TagPrint ==
  /\ pipeline = "tag" /\ pc = "read" /\ idx > Len(attrs)
  /\ files' = [files EXCEPT !["tag_values.go"] = Written(tag_values_text(tags))]
  /\ pc' = "done"
  /\ UNCHANGED <<pipeline, err, stdout, tagVars, defVars, uids, content>>

(***************************************************************************)
(* generate_uid_definitions.py: main                                       *)
(***************************************************************************)
\* ET.parse of the local or downloaded part06.xml, tree.getroot()
DefLoad ==
  /\ pipeline = "def" /\ pc = "start"
  /\ \E ut \in {NoTable} \cup
                 {[found |-> TRUE, rows |-> r] : r \in SeqsUpTo(TRPool, MaxRows)},
        ft \in {NoTable} \cup
                 {[found |-> TRUE, rows |-> r] :
                    r \in SeqsUpTo(FrameTRPool, MaxFrames)} :
       root' = [uid_table |-> ut, frames_table |-> ft]
  /\ pc' = "parse_uid_values"
  /\ UNCHANGED <<pipeline, err, files, stdout, tagVars, uid_values,
                 frames_of_ref, all_uids, uids, content>>

\* the local file is missing or the download fails: sys.exit(1)
DefLoadFails ==
  /\ pipeline = "def" /\ pc = "start"
  /\ Abort("RetrievalError")
  /\ UNCHANGED <<pipeline, files, stdout, tagVars, defVars, uids, content>>

\* ET.parse raises on a payload that is not XML
DefXMLFails ==
  /\ pipeline = "def" /\ pc = "start"
  /\ Abort("FormatError")
  /\ UNCHANGED <<pipeline, files, stdout, tagVars, defVars, uids, content>>

DefParseUIDValues ==
  /\ pipeline = "def" /\ pc = "parse_uid_values"
  /\ root.uid_table.found
  /\ uid_values' = parse_uid_values_table(root.uid_table.rows)
  /\ pc' = "parse_frames"
  /\ UNCHANGED <<pipeline, err, files, stdout, tagVars, root, frames_of_ref,
                 all_uids, uids, content>>

DefParseFrames ==
  /\ pipeline = "def" /\ pc = "parse_frames"
  /\ root.frames_table.found
  /\ frames_of_ref' = parse_frames_of_reference_table(root.frames_table.rows)
  /\ pc' = "clean_up"
  /\ UNCHANGED <<pipeline, err, files, stdout, tagVars, root, uid_values,
                 all_uids, uids, content>>

\* parse_table raises ValueError: no table with the caption
DefTableNotFound ==
  /\ pipeline = "def"
  /\ \/ pc = "parse_uid_values" /\ ~root.uid_table.found
     \/ pc = "parse_frames" /\ ~root.frames_table.found
  /\ Abort("TableNotFoundError")
  /\ UNCHANGED <<pipeline, files, stdout, tagVars, defVars, uids, content>>

\* all_uids = uid_values + frames_of_ref and the clean-up loop
DefCleanUp ==
  /\ pipeline = "def" /\ pc = "clean_up"
  /\ all_uids' = [i \in 1..(Len(uid_values) + Len(frames_of_ref)) |->
                    clean_up((uid_values \o frames_of_ref)[i])]
  /\ pc' = "write"
  /\ UNCHANGED <<pipeline, err, files, stdout, tagVars, root, uid_values,
                 frames_of_ref, uids, content>>

\* write_output_file(all_uids, OUTPUT_FILE)
DefWrite ==
  /\ pipeline = "def" /\ pc = "write"
  /\ files' = [files EXCEPT
                 !["uid_definitions.go"] = Written(uid_definitions_text(all_uids))]
  /\ pc' = "done"
  /\ UNCHANGED <<pipeline, err, stdout, tagVars, defVars, uids, content>>

(***************************************************************************)
(* generate_uid_constants.py: main                                         *)
(***************************************************************************)
\* uid_values.go exists
ConstInput ==
  /\ pipeline = "const" /\ pc = "start"
  /\ pc' = "parse"
  /\ UNCHANGED <<pipeline, err, files, stdout, tagVars, defVars, uids, content>>

\* uid_values.go does not exist: sys.exit(1)
ConstInputMissing ==
  /\ pipeline = "const" /\ pc = "start"
  /\ Abort("RetrievalError")
  /\ UNCHANGED <<pipeline, files, stdout, tagVars, defVars, uids, content>>

\* parse_uid_map returns the matches of the entry pattern
ConstParse ==
  /\ pipeline = "const" /\ pc = "parse"
  /\ \E us \in SeqsUpTo(EntryPool, MaxEntries) : uids' = us
  /\ pc' = "transfer_syntax"
  /\ UNCHANGED <<pipeline, err, files, stdout, tagVars, defVars, content>>

\* parse_uid_map raises ValueError: no uidMap, or no closing brace
ConstParseFails ==
  /\ pipeline = "const" /\ pc = "parse"
  /\ Abort("TableNotFoundError")
  /\ UNCHANGED <<pipeline, files, stdout, tagVars, defVars, uids, content>>

ConstTransferSyntax ==
  /\ pipeline = "const" /\ pc = "transfer_syntax"
  /\ LET out == generate_transfer_syntax_file(uids)
     IN  /\ files' = [files EXCEPT !["transfer_syntax_uids.go"] =
                        Written([total |-> out.total, lines |-> out.lines])]
         /\ stdout' = Append(stdout, out.printed)
  /\ pc' = "sop_class"
  /\ UNCHANGED <<pipeline, err, tagVars, defVars, uids, content>>

ConstSOPClass ==
  /\ pipeline = "const" /\ pc = "sop_class"
  /\ LET out == generate_sop_class_file(uids)
     IN  /\ files' = [files EXCEPT !["sop_class_uids.go"] =
                        Written([total |-> out.total, lines |-> out.lines])]
         /\ stdout' = Append(stdout, out.printed)
  /\ pc' = "done"
  /\ UNCHANGED <<pipeline, err, tagVars, defVars, uids, content>>

Next ==
  \/ TagOpen \/ TagFetch \/ TagFetchFails \/ TagDecode \/ TagDecodeFails
  \/ TagRecord \/ TagRecordRaises \/ TagPrint
  \/ DefLoad \/ DefLoadFails \/ DefXMLFails \/ DefParseUIDValues
  \/ DefParseFrames \/ DefTableNotFound \/ DefCleanUp \/ DefWrite
  \/ ConstInput \/ ConstInputMissing \/ ConstParse \/ ConstParseFails
  \/ ConstTransferSyntax \/ ConstSOPClass

Spec == Init /\ [][Next]_vars

(***************************************************************************)
(* The round trip of the two UID pipelines: generate_uid_map writes the    *)
(* uidMap text, parse_uid_map reads it.                                    *)
(***************************************************************************)
\* rows of Table A-1 for the round trip: plain, retired with info, a double
\* quote or a brace in the name or the info, no UID, and a type whose
\* keyword has non-word characters
WrittenRowPool ==
  { Row(U19, <<"a">>, SOPClassText, <<>>),
    Row(U110, <<"a",":"," ","b"," ">> \o RetiredMarker, TransferSyntaxText,
        Retired),
    Row(U29, <<"a",Quote,"b">>, SOPClassText, <<>>),
    Row(U123, <<"a","}">>, SOPClassText, <<>>),
    Row(U1231, <<"a",":"," ","{">>, SOPClassText, <<>>),
    Row(<<>>, <<"a">>, SOPClassText, <<>>),
    Row(U19, <<"b">>, <<"A","(","B",")">>, <<>>),
    Row(U29, <<"a",":"," ",Quote>>, TransferSyntaxText, <<>>) }

\* the normalized entries main hands to write_output_file for these rows
NormalizedPool ==
  { clean_up(post_process(parse_row(uid_values_labels,
                                    TR(uid_values_labels, r)))) :
      r \in WrittenRowPool }

InitRoundTrip ==
  /\ pipeline = "def"
  /\ pc = "write"
  /\ err = ""
  /\ files = [f \in OutputFiles |-> Previous]
  /\ stdout = <<>>
  /\ attrs = <<>>
  /\ idx = 1
  /\ tags = <<>>
  /\ root = [uid_table |-> NoTable, frames_table |-> NoTable]
  /\ uid_values = <<>>
  /\ frames_of_ref = <<>>
  /\ all_uids \in SeqsUpTo(NormalizedPool, MaxWritten)
  /\ uids = <<>>
  /\ content = <<>>

\* generate_uid_map(attrs); its text is what the other pipeline reads
WriteUIDMap ==
  /\ pipeline = "def" /\ pc = "write"
  /\ content' = uid_map_text(all_uids)
  /\ pipeline' = "const"
  /\ pc' = "parse"
  /\ UNCHANGED <<err, files, stdout, tagVars, defVars, uids>>

\* parse_uid_map returns the tuples matched in content
ParseUIDMap ==
  /\ pipeline = "const" /\ pc = "parse"
  /\ ~parse_uid_map(content).raises
  /\ uids' = parse_uid_map(content).uids
  /\ pc' = "transfer_syntax"
  /\ UNCHANGED <<pipeline, err, files, stdout, tagVars, defVars, content>>

\* parse_uid_map raises ValueError
ParseUIDMapRaises ==
  /\ pipeline = "const" /\ pc = "parse"
  /\ parse_uid_map(content).raises
  /\ Abort("TableNotFoundError")
  /\ UNCHANGED <<pipeline, files, stdout, tagVars, defVars, uids, content>>

NextRoundTrip == WriteUIDMap \/ ParseUIDMap \/ ParseUIDMapRaises

SpecRoundTrip == InitRoundTrip /\ [][NextRoundTrip]_vars

(***************************************************************************)
(* Properties of the UID-constants generator.                              *)
(***************************************************************************)
ConstFiles == {"transfer_syntax_uids.go", "sop_class_uids.go"}

\* the declarations of a generated UID-constants file, in emission order
Decls(f) == IF files[f].state = "written" THEN files[f].body.lines ELSE <<>>

\* the declarations whose synthesized base name is shared with another one
Colliding(L) ==
  {i \in 1..Len(L) :
     \E j \in 1..Len(L) :
       j # i /\ to_go_constant_name(L[j].name) = to_go_constant_name(L[i].name)}

\* the text after the last dot of a UID
FinalSegment(uid) ==
  LET dots == {i \in 1..Len(uid) : uid[i] = "."}
  IN  SubSeq(uid, IF dots = {} THEN 1
                  ELSE 1 + CHOOSE i \in dots : \A j \in dots : j <= i,
             Len(uid))

\* C1: the constant names declared in a generated UID-constants file are
\* pairwise distinct, whatever the entries are.
C1_DistinctNames ==
  \A f \in ConstFiles :
    \A i, j \in 1..Len(Decls(f)) :
      i # j => Decls(f)[i].const_name # Decls(f)[j].const_name

\* C2: when exactly two declared entries of a file, with different UIDs,
\* synthesize to the same base identifier, the first in sort order is declared
\* under the base identifier, the second under base + "_" + the final dotted
\* segment of its own UID, and the two identifiers differ.
C2_PairCollision ==
  \A f \in ConstFiles :
    \A i, j \in 1..Len(Decls(f)) :
      (/\ i < j
       /\ Colliding(Decls(f)) = {i, j}
       /\ Decls(f)[i].uid # Decls(f)[j].uid)
      => /\ Decls(f)[i].const_name = to_go_constant_name(Decls(f)[i].name)
         /\ Decls(f)[j].const_name =
              to_go_constant_name(Decls(f)[j].name) \o <<"_">>
                \o FinalSegment(Decls(f)[j].uid)
         /\ Decls(f)[i].const_name # Decls(f)[j].const_name

\* C2 witness: a file of three declarations, two of which collide, the second
\* of them declared with the final segment of its UID.
C2_Witness ==
  \E f \in ConstFiles :
    /\ Len(Decls(f)) = 3
    /\ \E i, j \in 1..3 :
         /\ i < j
         /\ Colliding(Decls(f)) = {i, j}
         /\ Decls(f)[i].uid # Decls(f)[j].uid
         /\ Decls(f)[i].name # Decls(f)[j].name
         /\ Decls(f)[j].const_name = <<"A","_","9">>

\* the two entries of the scenario: UIDs 1.2.3 and 1.2.3.1, equal base names
C3_Scenario(L, i, j) ==
  /\ L[i].uid = U123
  /\ L[j].uid = U1231
  /\ to_go_constant_name(L[i].name) = to_go_constant_name(L[j].name)

\* C3 as stated: the entries with UIDs 1.2.3 and 1.2.3.1 that synthesize to
\* the same base identifier are declared as base_3 and base_3_1.
C3_Original ==
  \A f \in ConstFiles :
    \A i, j \in 1..Len(Decls(f)) :
      C3_Scenario(Decls(f), i, j)
      => /\ Decls(f)[i].const_name =
              to_go_constant_name(Decls(f)[i].name) \o <<"_","3">>
         /\ Decls(f)[j].const_name =
              to_go_constant_name(Decls(f)[j].name) \o <<"_","3","_","1">>

\* C3 amended: when the entries with UIDs 1.2.3 and 1.2.3.1 are the only two
\* declarations of the file with the same base identifier, 1.2.3 is declared
\* under the base identifier without suffix and 1.2.3.1 under base_1.
C3_Amended ==
  \A f \in ConstFiles :
    \A i, j \in 1..Len(Decls(f)) :
      (C3_Scenario(Decls(f), i, j) /\ Colliding(Decls(f)) = {i, j})
      => /\ Decls(f)[i].const_name = to_go_constant_name(Decls(f)[i].name)
         /\ Decls(f)[j].const_name =
              to_go_constant_name(Decls(f)[j].name) \o <<"_","1">>

\* C3 witness: the scenario occurs, the retired entry being 1.2.3.1.
C3_Witness ==
  \E f \in ConstFiles :
    \E i, j \in 1..Len(Decls(f)) :
      /\ C3_Scenario(Decls(f), i, j)
      /\ Colliding(Decls(f)) = {i, j}
      /\ Decls(f)[j].retired /\ ~Decls(f)[i].retired
      /\ Decls(f)[j].const_name = <<"A","_","1">>

RECURSIVE DecNum(_)
\* value of a decimal segment
DecNum(s) ==
  IF s = <<>> THEN 0
  ELSE 10 * DecNum(SubSeq(s, 1, Len(s) - 1)) + HexVal(s[Len(s)])

\* dotted-numeric order: the first differing segment decides, as integers;
\* a UID that is a proper prefix of another comes first
DottedLess(a, b) ==
  LET sa == SplitSep(a, <<".">>)
      sb == SplitSep(b, <<".">>)
  IN  \/ \E i \in 1..Len(sa) :
           /\ i <= Len(sb)
           /\ \A k \in 1..(i - 1) : DecNum(sa[k]) = DecNum(sb[k])
           /\ DecNum(sa[i]) < DecNum(sb[i])
      \/ /\ Len(sa) < Len(sb)
         /\ \A k \in 1..Len(sa) : DecNum(sa[k]) = DecNum(sb[k])

\* C5: the declarations of a generated UID-constants file are in ascending
\* dotted-numeric order of UID (segment 9 before segment 10).
C5_NumericOrder ==
  \A f \in ConstFiles :
    \A i, j \in 1..Len(Decls(f)) :
      i < j => ~DottedLess(Decls(f)[j].uid, Decls(f)[i].uid)

(***************************************************************************)
(* Properties of a run.                                                    *)
(***************************************************************************)
\* C4: when a run aborts on a fatal error, no output file has been opened,
\* truncated or written: every artifact still has its previous content.
C4_AbortLeavesFiles ==
  pc = "aborted" => \A f \in OutputFiles : files[f] = Previous

(***************************************************************************)
(* Properties of the tag generator.                                        *)
(***************************************************************************)
\* the position in attrs of the record the n-th Tag was built from
SourceOf(n) ==
  CHOOSE k \in 1..Len(attrs) :
    /\ tag_included(attrs[k])
    /\ Cardinality({j \in 1..k : tag_included(attrs[j])}) = n

\* the records the list comprehension has gone through
Processed == 1..(idx - 1)

\* the two 16-bit halves of an id whose placeholders, in either letter case,
\* are read as 0
ExpectedPair(id) ==
  LET z == [i \in 1..Len(id) |-> IF id[i] \in {"x", "X"} THEN "0" ELSE id[i]]
  IN  <<HexNum(SubSeq(z, 1, 4)), HexNum(SubSeq(z, 5, 8))>>

\* C7: an id of hex digits and placeholders yields the same (group, element)
\* pair whether the placeholders are written x or X: the run does not fail on
\* it and the Tag carries the pair obtained with 0 for each placeholder.
C7_PlaceholderCase ==
  pipeline = "tag"
  => /\ err # "ValueError"
     /\ \A n \in 1..Len(tags) :
          <<tags[n].group, tags[n].elem>> = ExpectedPair(attrs[SourceOf(n)].id)

\* C8: a Tag whose group is 0xFFFE has the vr list ['NA'] whatever the raw
\* valueRepresentation is; any other Tag has the raw field split on " or ".
C8_ItemGroupVR ==
  pipeline = "tag"
  => \A n \in 1..Len(tags) :
       IF tags[n].group = 65534
         THEN tags[n].vr = <<NA>>
         ELSE tags[n].vr = SplitSep(attrs[SourceOf(n)].valueRepresentation,
                                    allowed_vrs_separator)

\* C8 witness: a record with the upper-case id FFFEE00D and the raw field
\* "US or SS" has produced a Tag with vr ['NA'], and a record outside the item
\* group has produced a Tag with two vrs.
C8_Witness ==
  /\ pipeline = "tag"
  /\ \E n \in 1..Len(tags) :
       /\ attrs[SourceOf(n)].id[1] = "F"
       /\ Len(SplitSep(attrs[SourceOf(n)].valueRepresentation,
                       allowed_vrs_separator)) = 2
       /\ tags[n].group = 65534
       /\ tags[n].vr = <<NA>>
  /\ \E n \in 1..Len(tags) : tags[n].group # 65534 /\ Len(tags[n].vr) = 2

\* C9: a record whose keyword is empty after trimming produces no Tag, and
\* every other record produces exactly one.
C9_BlankKeywordDropped ==
  /\ \A n \in 1..Len(tags) : Strip(tags[n].keyword) # <<>>
  /\ Len(tags) = Cardinality({k \in Processed : Strip(attrs[k].keyword) # <<>>})

(***************************************************************************)
(* Properties of the UID-definitions generator.                            *)
(***************************************************************************)
\* the rows of Table A-1 have been post-processed
UIDValuesParsed ==
  pipeline = "def" /\ pc \in {"parse_frames", "clean_up", "write", "done"}

\* the display name of the i-th row of Table A-1 as parse_row returns it
RawName(i) == parse_row(uid_values_labels, root.uid_table.rows[i])["UID Name"]

\* C6: a row whose raw name contains "(Retired)" ends with the retirement
\* field "Retired" and a name without "(Retired)", and is rendered so.
C6_RetiredMarker ==
  /\ UIDValuesParsed
     => \A i \in 1..Len(uid_values) :
          Contains(RawName(i), RetiredMarker)
          => /\ uid_values[i]["Retired"] = Retired
             /\ ~Contains(uid_values[i]["UID Name"], RetiredMarker)
  /\ files["uid_definitions.go"].state = "written"
     => \A i \in 1..Len(uid_values) :
          Contains(RawName(i), RetiredMarker)
          => /\ files["uid_definitions.go"].body.uidMap[i].Retired = "true"
             /\ ~Contains(files["uid_definitions.go"].body.uidMap[i].Name,
                          RetiredMarker)

\* C10: a raw UID Type outside the Type enumeration ends the run in a fatal
\* error; no uidMap entry is written with a Type constant that the emitted
\* enumeration does not declare.
C10_ClosedTypeEnum ==
  /\ (pipeline = "def" /\ pc = "done")
     => \A i \in 1..Len(all_uids) : all_uids[i]["UID Type"] \in TypeEnumValues
  /\ files["uid_definitions.go"].state = "written"
     => \A i \in 1..Len(files["uid_definitions.go"].body.uidMap) :
          files["uid_definitions.go"].body.uidMap[i].Type
            \in files["uid_definitions.go"].body.type_enum

(***************************************************************************)
(* Properties of the generated texts.                                      *)
(***************************************************************************)
\* the text of tag_values.go once written
TagText ==
  IF files["tag_values.go"].state = "written"
    THEN files["tag_values.go"].body
    ELSE [vars |-> <<>>, TagDict |-> <<>>]

\* C11: in tag_values.go every name declared by a var line is the key of
\* exactly one TagDict entry, and every TagDict key is a declared var, also
\* when two records carry the same keyword.
C11_VarsMatchKeys ==
  /\ \A i \in 1..Len(TagText.vars) :
       Cardinality({j \in 1..Len(TagText.TagDict) :
                      TagText.TagDict[j].key = TagText.vars[i].name}) = 1
  /\ \A j \in 1..Len(TagText.TagDict) :
       \E i \in 1..Len(TagText.vars) :
         TagText.vars[i].name = TagText.TagDict[j].key

\* C12: every identifier declared in a UID-constants file is non-empty, does
\* not start with a digit and is made of word characters only.
C12_ValidIdentifier ==
  \A f \in ConstFiles :
    \A i \in 1..Len(Decls(f)) :
      /\ Decls(f)[i].const_name # <<>>
      /\ ~IsDigitCh(Decls(f)[i].const_name[1])
      /\ \A k \in 1..Len(Decls(f)[i].const_name) :
           IsWordCh(Decls(f)[i].const_name[k])

\* a display name that is empty or made of whitespace only
Blank(name) == \A i \in 1..Len(name) : IsSpaceCh(name[i])

\* the types whose entries go to a UID-constants file
FileTypes(f) ==
  IF f = "transfer_syntax_uids.go" THEN {TypeTransferSyntax}
  ELSE {TypeSOPClass, TypeMetaSOPClass}

\* the position in stdout of the summary of a UID-constants file
SummaryOf(f) == IF f = "transfer_syntax_uids.go" THEN 1 ELSE 2

\* the parsed entries of the category of a file, the blank-named ones
InCategory(f) == {k \in 1..Len(uids) : uids[k][3] \in FileTypes(f)}

BlankInCategory(f) == {k \in InCategory(f) : Blank(uids[k][2])}

\* C14: an entry with an empty or whitespace-only name is never declared and
\* counts as skipped; the printed count is the number of entries of the
\* category minus the skipped ones and equals the number of declarations
\* written; a skip note, with the number skipped, is printed exactly when at
\* least one entry was skipped.
C14_SkippedNames ==
  \A f \in ConstFiles :
    files[f].state = "written"
    => /\ \A i \in 1..Len(Decls(f)) : ~Blank(Decls(f)[i].name)
       /\ stdout[SummaryOf(f)].count = Len(Decls(f))
       /\ stdout[SummaryOf(f)].count =
            Cardinality(InCategory(f)) - Cardinality(BlankInCategory(f))
       /\ stdout[SummaryOf(f)].skip_note =
            IF BlankInCategory(f) = {} THEN <<>>
            ELSE <<Cardinality(BlankInCategory(f))>>

\* C14 witness: a written file with declarations and a skip note, one of the
\* skipped names being whitespace only.
C14_Witness ==
  \E f \in ConstFiles :
    /\ files[f].state = "written"
    /\ Len(Decls(f)) >= 1
    /\ stdout[SummaryOf(f)].skip_note # <<>>
    /\ \E k \in BlankInCategory(f) : uids[k][2] # <<>>

\* C15: no identifier is declared both in transfer_syntax_uids.go and in
\* sop_class_uids.go of the same run.
C15_RunScopedNames ==
  \A i \in 1..Len(Decls("transfer_syntax_uids.go")) :
    \A j \in 1..Len(Decls("sop_class_uids.go")) :
      Decls("transfer_syntax_uids.go")[i].const_name
        # Decls("sop_class_uids.go")[j].const_name

(***************************************************************************)
(* Properties of parse_row.                                                *)
(***************************************************************************)
\* the text found at the p-th para of a tr element: the emphasis text when
\* there is an emphasis child, without surrounding whitespace and zero-width
\* spaces; the empty string when there is no p-th para or no text
TextAt(row, p) ==
  IF p > Len(row) THEN <<>>
  ELSE LET found == IF row[p].emphasis # <<>> THEN row[p].emphasis[1]
                    ELSE row[p].text
       IN  IF found = <<>> THEN <<>>
           ELSE SelectSeq(Strip(found[1]), LAMBDA ch : ch # ZWSP)

\* the record the claim describes for a row and a list of labels
ExpectedRecord(labels, row) ==
  [k \in {labels[i] : i \in 1..Len(labels)} |->
     TextAt(row, CHOOSE i \in 1..Len(labels) : labels[i] = k)]

\* the rows of Table A-2 have been post-processed
FramesParsed == pipeline = "def" /\ pc \in {"clean_up", "write", "done"}

WrittenTuple(attr) ==
  <<attr["UID Value"], attr["UID Name"],
    <<"T","y","p","e">> \o sanitize_keyword(attr["UID Type"]),
    attr["Retired"] = Retired>>

\* parse_uid_map has ended, with its result or with an error
RoundTripDone ==
  pipeline = "const" /\ pc \in {"transfer_syntax", "aborted"}

\* C16: parse_uid_map applied to the text generate_uid_map wrote ends without
\* error and returns one tuple per written entry, in the same order, with the
\* same UID, name, Type constant and retired flag.
C16_RoundTrip ==
  RoundTripDone
    => /\ err = ""
       /\ uids = [i \in 1..Len(all_uids) |-> WrittenTuple(all_uids[i])]

====
